---- MODULE Spec2Model ----
(***************************************************************************)
(* Model of rpi-epaper: the command protocol engine (src/cmd.rs), the      *)
(* pixel sources (src/draw.rs) and the program run of main (src/main.rs).  *)
(*                                                                         *)
(* One run of main is a state machine.  Every call on the transport        *)
(* (send_cmd, send_data, a busy-wait that returned, a sleep, a write to    *)
(* the reset line) is appended to `trace` in the order it happens, with    *)
(* the result of the call.  The busy line belongs to the panel and changes *)
(* at any time.                                                            *)
(*                                                                         *)
(* The panel is SCREEN_WIDTH x SCREEN_HEIGHT = 600 x 448; the pixel loop   *)
(* of Draw is run on a panel of Width x Height pixels, the same loop with  *)
(* smaller limits.                                                         *)
(*                                                                         *)
(* The functions that main does not reach with every input (Color::closest,*)
(* PanelSetting, Partial) and the loop of floyd_steinberg_dither are       *)
(* studied on their own, in FnSpec and DitherSpec, with `work` as state.   *)
(* f32 values are held in fixed point, in units of 1/Fixed.                *)
(***************************************************************************)
EXTENDS Integers, Sequences, FiniteSets, TLC

\* main.rs:29-30
SCREEN_WIDTH == 600
SCREEN_HEIGHT == 448

\* Size of the panel the pixel loop is run on (stands for 600 x 448).
Width == 4
Height == 2

VARIABLES
    pc,      \* position of main
    ip,      \* position inside the Command being sent (index into its steps)
    trace,   \* every hardware interaction so far, in order
    busy,    \* level of the BUSY input pin
    arg,     \* first command-line argument
    img,     \* dimensions of the bundled image
    source,  \* the Drawable handed to Draw
    ret,     \* result of Init.send and of Draw.send
    mark,    \* history: length of the trace when each send was called
    work     \* the function under study outside a run of main: its inputs,
             \* its position and its results (NoWork in a run of main)

vars == <<pc, ip, trace, busy, arg, img, source, ret, mark, work>>

----------------------------------------------------------------------------
(* u8 arithmetic *)

\* u8 `v << n` for n < 8: bits shifted out of the byte are lost
Shl(v, n) == (v * (2 ^ n)) % 256

RECURSIVE BitOr(_, _)
\* bitwise `a | b`
BitOr(a, b) ==
    IF a = 0 THEN b
    ELSE IF b = 0 THEN a
    ELSE (IF a % 2 = 1 \/ b % 2 = 1 THEN 1 ELSE 0)
         + 2 * BitOr(a \div 2, b \div 2)

\* Faulty variant of to_bit: the flag lands one bit too high
to_bit_shifted(f, bit) == IF f THEN Shl(1, bit + 1) ELSE 0

\* cmd.rs:10-16
to_bit(f, bit) == IF f THEN Shl(1, bit) ELSE 0

----------------------------------------------------------------------------
(* draw.rs: Color and the pixel sources *)

\* draw.rs:7-16, the enum's variants
Color == {"Black", "White", "Green", "Blue", "Red", "Yellow", "Orange", "Clean"}

\* draw.rs:7-16, the discriminants (`c as u8`)
Code(c) ==
    CASE c = "Black"  -> 0
      [] c = "White"  -> 1
      [] c = "Green"  -> 2
      [] c = "Blue"   -> 3
      [] c = "Red"    -> 4
      [] c = "Yellow" -> 5
      [] c = "Orange" -> 6
      [] c = "Clean"  -> 7

\* draw.rs:66
SolidColor(c) == [kind |-> "SolidColor", color |-> c, data |-> <<>>]

\* draw.rs:77-79; data is row-major, Width * Height entries
PaperImage(d) == [kind |-> "PaperImage", color |-> "Clean", data |-> d]

\* draw.rs:81-87
PaperImage_get_pixel(src, x, y) == src.data[x + y * Width + 1]

\* Faulty variant of SolidColor_get_pixel: the stored color is ignored
SolidColor_get_pixel_black(src, x, y) == "Black"

\* draw.rs:123-127
SolidColor_get_pixel(src, x, y) == src.color

\* draw.rs:62-64: Drawable::get_pixel, by the type of the source
get_pixel(src, x, y) ==
    IF src.kind = "SolidColor"
    THEN SolidColor_get_pixel(src, x, y)
    ELSE PaperImage_get_pixel(src, x, y)

----------------------------------------------------------------------------
(* main.rs:61-66, the calls a Command makes on the SpiDevice, as steps *)

\* SpiDevice::send_cmd(cmd), main.rs:62
send_cmd(b) == [op |-> "send_cmd", arg |-> <<b>>]

\* SpiDevice::send_data(data), main.rs:63
send_data(bytes) == [op |-> "send_data", arg |-> bytes]

\* SpiDevice::wait_busy_high(), main.rs:64
wait_busy_high == [op |-> "wait_busy_high", arg |-> <<>>]

\* SpiDevice::wait_busy_low(), main.rs:65
wait_busy_low == [op |-> "wait_busy_low", arg |-> <<>>]

\* std::thread::sleep(Duration::from_millis(ms))
sleep(ms) == [op |-> "sleep", arg |-> <<ms>>]

\* OutputPin::set_high / set_low on the reset pin
reset_set_high == [op |-> "reset_set_high", arg |-> <<>>]
reset_set_low == [op |-> "reset_set_low", arg |-> <<>>]

----------------------------------------------------------------------------
(* cmd.rs: each Command's send, as the sequence of steps it performs.  A   *)
(* step that fails ends the sequence (the `?` after every transport call,  *)
(* modelled in SendCmd and SendData below).                                *)

\* Faulty variant of PanelSetting: the four flags land in the reverse order
PanelSetting_flags_reversed(ud, shl, shd_n, rst_n) ==
    << send_cmd(0),
       send_data(<< BitOr(BitOr(BitOr(BitOr(224, to_bit(ud, 0)),
                                      to_bit(shl, 1)),
                                to_bit(shd_n, 2)),
                          to_bit(rst_n, 3)),
                    8 >>) >>

\* cmd.rs:193-204
PanelSetting(ud, shl, shd_n, rst_n) ==
    << send_cmd(0),
       send_data(<< BitOr(BitOr(BitOr(BitOr(224, to_bit(ud, 3)),
                                      to_bit(shl, 2)),
                                to_bit(shd_n, 1)),
                          to_bit(rst_n, 0)),
                    8 >>) >>

\* cmd.rs:206-215
PanelSettingDefault == PanelSetting(TRUE, TRUE, TRUE, TRUE)

\* cmd.rs:185-191
InternalPower == << send_cmd(1), send_data(<<55, 0, 35, 35>>) >>

\* cmd.rs:177-183
PowerOffSequence == << send_cmd(3), send_data(<<0>>) >>

\* cmd.rs:169-175
BoosterSoftStart == << send_cmd(6), send_data(<<199, 199, 29>>) >>

\* cmd.rs:161-167
PLLControl == << send_cmd(48), send_data(<<60>>) >>

\* cmd.rs:152-159
TempSensor == << send_cmd(65), send_data(<<0>>) >>

\* cmd.rs:143-150
VCOMDataInterval(border_output) ==
    << send_cmd(80),
       send_data(<< BitOr(BitOr(Shl(Code(border_output), 5), Shl(1, 4)), 7) >>) >>

\* cmd.rs:136-141
Unknown6022 == << send_cmd(96), send_data(<<34>>) >>

\* Faulty variant of SetResolution: the two 16-bit values low byte first
SetResolution_little_endian == << send_cmd(97), send_data(<<88, 2, 192, 1>>) >>

\* cmd.rs:128-134
SetResolution == << send_cmd(97), send_data(<<2, 88, 1, 192>>) >>

\* cmd.rs:121-126
UnknownE3AA == << send_cmd(227), send_data(<<170>>) >>

\* cmd.rs:92-98
PowerOn == << send_cmd(4), wait_busy_high >>

\* Faulty variant of DisplayRefresh: the busy-wait is left out
DisplayRefresh_no_wait == << send_cmd(18) >>

\* cmd.rs:84-90
DisplayRefresh == << send_cmd(18), wait_busy_high >>

\* cmd.rs:76-82
PowerOff == << send_cmd(2), wait_busy_low >>

\* Faulty variant of InitSteps: the 100ms sleep comes after the second 0x50
InitSteps_no_delay ==
    PanelSettingDefault \o InternalPower \o PowerOffSequence
    \o BoosterSoftStart \o PLLControl \o TempSensor
    \o VCOMDataInterval("Black") \o Unknown6022 \o SetResolution
    \o UnknownE3AA
    \o VCOMDataInterval("Black") \o << sleep(100) >>

\* cmd.rs:51-74
InitSteps ==
    PanelSettingDefault \o InternalPower \o PowerOffSequence
    \o BoosterSoftStart \o PLLControl \o TempSensor
    \o VCOMDataInterval("Black") \o Unknown6022 \o SetResolution
    \o UnknownE3AA \o << sleep(100) >>
    \o VCOMDataInterval("Black")

\* Faulty variant of PackByte: the two nibbles are exchanged
PackByte_swapped(src, x, y) ==
    BitOr(Shl(Code(get_pixel(src, x * 2 + 1, y)), 4),
          Code(get_pixel(src, x * 2, y)))

\* cmd.rs:107-109, the byte d of two adjacent pixels
PackByte(src, x, y) ==
    BitOr(Shl(Code(get_pixel(src, x * 2, y)), 4),
          Code(get_pixel(src, x * 2 + 1, y)))

\* cmd.rs:106-111, the inner loop: one send_data call for each byte of row y
RowSteps(src, y) ==
    [k \in 1..(Width \div 2) |-> send_data(<< PackByte(src, k - 1, y) >>)]

RECURSIVE RowsFrom(_, _)
\* cmd.rs:105-112, the outer loop from row y on
RowsFrom(src, y) ==
    IF y >= Height THEN << >>
    ELSE RowSteps(src, y) \o RowsFrom(src, y + 1)

\* Faulty variant of DrawSteps: Display refresh is sent before Power on
DrawSteps_refresh_first(src) ==
    SetResolution \o << send_cmd(16) >> \o RowsFrom(src, 0)
    \o DisplayRefresh \o PowerOn \o PowerOff \o << sleep(200) >>

\* cmd.rs:100-119
DrawSteps(src) ==
    SetResolution \o << send_cmd(16) >> \o RowsFrom(src, 0)
    \o PowerOn \o DisplayRefresh \o PowerOff \o << sleep(200) >>

\* main.rs:51-58, EPaper::reset
ResetSteps ==
    << reset_set_high, sleep(600), reset_set_low, sleep(2),
       reset_set_high, sleep(200) >>

----------------------------------------------------------------------------
(* Inputs of a run *)

\* env::args().skip(1).next(), main.rs:196-197
Args == {"<none>", "clean", "other"}

\* Width and height of the decoded bundled image (u32), main.rs:205-207
ImageDims ==
    { [w |-> Width, h |-> Height],
      [w |-> Width + 1, h |-> Height],
      [w |-> Width, h |-> Height - 1],
      [w |-> Width + 65536, h |-> Height] }

\* Frame r of a family in which every ordered pair of colors is the pixel
\* pair of some byte: byte p of frame r holds pair number r * bytes + p
\* (mod 64), pair q being the colors with codes q / 8 and q % 8
PairFrame(r) ==
    [i \in 1..(Width * Height) |->
        LET x == (i - 1) % Width
            y == (i - 1) \div Width
            q == (r * ((Width \div 2) * Height) + y * (Width \div 2) + (x \div 2)) % 64
        IN  CHOOSE c \in Color :
                Code(c) = IF x % 2 = 0 THEN q \div 8 ELSE q % 8]

\* main.rs:147-193: floyd_steinberg_dither returns a PaperImage, Width * Height
\* palette colors; which one depends on the bundled image
DitherOutputs ==
    { PaperImage(PairFrame(r)) : r \in 0..(63 \div ((Width \div 2) * Height)) }

NoSource == [kind |-> "none", color |-> "Clean", data |-> << >>]

\* A run of main: no function is studied on its own
NoWork == [fn |-> "none"]

----------------------------------------------------------------------------
(* The run of main *)

Init ==
    /\ pc = "open"
    /\ ip = 0
    /\ trace = << >>
    /\ busy \in {"low", "high"}
    /\ arg \in Args
    /\ img \in ImageDims
    /\ source = NoSource
    /\ ret = [Init |-> "none", Draw |-> "none"]
    /\ mark = [Init |-> -1, Draw |-> -1]
    /\ work = NoWork

\* The Command main is sending
Sending == IF pc = "init_send" THEN "Init" ELSE "Draw"

\* The steps of the send in progress
CurSteps ==
    IF pc = "init_send" THEN InitSteps
    ELSE IF pc = "draw_send" THEN DrawSteps(source)
    ELSE << wait_busy_high >>

CurStep == CurSteps[ip]

InSend == pc \in {"init_send", "draw_send"}

\* The call returned: the record of it in the trace
Done(step, ok) == [op |-> step.op, arg |-> step.arg, ok |-> ok]

\* The step succeeded: on to the next one, or the send returns Ok(()) to main
\* (main.rs:214, 218, 220)
Advance ==
    IF ip < Len(CurSteps)
    THEN /\ ip' = ip + 1
         /\ UNCHANGED <<pc, ret>>
    ELSE /\ ip' = 0
         /\ pc' = IF pc = "wait_busy" THEN "init_send_call"
                  ELSE IF pc = "init_send" THEN "select_source"
                  ELSE "done"
         /\ ret' = IF InSend THEN [ret EXCEPT ![Sending] = "Ok"] ELSE ret

\* The step failed: `?` returns the error from the send, and main's `?`
\* returns it from main (cmd.rs:54-71, 102-115; main.rs:214-220)
Abort ==
    /\ ip' = 0
    /\ pc' = "exit_err"
    /\ ret' = [ret EXCEPT ![Sending] = "Err"]

\* main.rs:196-202: Spi::new and the three Gpio pins, each may fail
OpenDevices ==
    /\ pc = "open"
    /\ \E ok \in BOOLEAN : pc' = IF ok THEN "epaper_init" ELSE "exit_err"
    /\ UNCHANGED <<ip, trace, busy, arg, img, source, ret, mark, work>>

\* main.rs:203 and 40-49: EPaper::init builds the struct and calls reset
EPaperInit ==
    /\ pc = "epaper_init"
    /\ trace' = trace \o [i \in 1..Len(ResetSteps) |-> Done(ResetSteps[i], TRUE)]
    /\ pc' = "load_image"
    /\ UNCHANGED <<ip, busy, arg, img, source, ret, mark, work>>

\* main.rs:205-207: bmp::from_reader may fail
LoadImage ==
    /\ pc = "load_image"
    /\ \E ok \in BOOLEAN : pc' = IF ok THEN "assert_dims" ELSE "exit_err"
    /\ UNCHANGED <<ip, trace, busy, arg, img, source, ret, mark, work>>

\* main.rs:208: assert! on the dimensions cast to u16
AssertDims ==
    /\ pc = "assert_dims"
    /\ pc' = IF img.w % 65536 = Width /\ img.h % 65536 = Height
             THEN "reset" ELSE "panicked"
    /\ UNCHANGED <<ip, trace, busy, arg, img, source, ret, mark, work>>

\* Faulty variant of Reset: Init is sent without the wait for busy-high
Reset_no_wait ==
    /\ pc = "reset"
    /\ trace' = trace \o [i \in 1..Len(ResetSteps) |-> Done(ResetSteps[i], TRUE)]
    /\ pc' = "init_send_call"
    /\ UNCHANGED <<ip, busy, arg, img, source, ret, mark, work>>

\* main.rs:210-211: display.reset()
Reset ==
    /\ pc = "reset"
    /\ trace' = trace \o [i \in 1..Len(ResetSteps) |-> Done(ResetSteps[i], TRUE)]
    /\ pc' = "wait_busy"
    /\ ip' = 1
    /\ UNCHANGED <<busy, arg, img, source, ret, mark, work>>

\* main.rs:213-214: Init.send(&mut display) is called
CallInit ==
    /\ pc = "init_send_call"
    /\ pc' = "init_send"
    /\ ip' = 1
    /\ mark' = [mark EXCEPT !.Init = Len(trace)]
    /\ UNCHANGED <<trace, busy, arg, img, source, ret, work>>

\* main.rs:217-221: the source of Draw, then Draw(..).send is called
SelectSource ==
    /\ pc = "select_source"
    /\ IF arg = "clean"
       THEN source' = SolidColor("Clean")
       ELSE source' \in DitherOutputs
    /\ pc' = "draw_send"
    /\ ip' = 1
    /\ mark' = [mark EXCEPT !.Draw = Len(trace)]
    /\ UNCHANGED <<trace, busy, arg, img, ret, work>>

\* Faulty variant of SendCmd: the result of send_cmd is dropped
SendCmd_ignore_error ==
    /\ InSend
    /\ CurStep.op = "send_cmd"
    /\ \E ok \in BOOLEAN :
        /\ trace' = Append(trace, Done(CurStep, ok))
        /\ Advance
    /\ UNCHANGED <<busy, arg, img, source, mark, work>>

\* main.rs:69-73 with the `?` of the caller in cmd.rs
SendCmd ==
    /\ InSend
    /\ CurStep.op = "send_cmd"
    /\ \E ok \in BOOLEAN :
        /\ trace' = Append(trace, Done(CurStep, ok))
        /\ IF ok THEN Advance ELSE Abort
    /\ UNCHANGED <<busy, arg, img, source, mark, work>>

\* Faulty variant of SendData: Draw drops the result of send_data
SendData_ignore_error ==
    /\ InSend
    /\ CurStep.op = "send_data"
    /\ \E ok \in BOOLEAN :
        /\ trace' = Append(trace, Done(CurStep, ok))
        /\ IF ok \/ pc = "draw_send" THEN Advance ELSE Abort
    /\ UNCHANGED <<busy, arg, img, source, mark, work>>

\* main.rs:75-79 with the `?` of the caller in cmd.rs
SendData ==
    /\ InSend
    /\ CurStep.op = "send_data"
    /\ \E ok \in BOOLEAN :
        /\ trace' = Append(trace, Done(CurStep, ok))
        /\ IF ok THEN Advance ELSE Abort
    /\ UNCHANGED <<busy, arg, img, source, mark, work>>

\* Faulty variant of WaitBusyHigh: the wait gives up while the line is low
WaitBusyHigh_timeout ==
    /\ pc \in {"wait_busy", "init_send", "draw_send"}
    /\ CurStep.op = "wait_busy_high"
    /\ trace' = Append(trace, Done(CurStep, TRUE))
    /\ Advance
    /\ UNCHANGED <<busy, arg, img, source, mark, work>>

\* main.rs:81-85: one poll of the loop; the call returns when the line is high
WaitBusyHigh ==
    /\ pc \in {"wait_busy", "init_send", "draw_send"}
    /\ CurStep.op = "wait_busy_high"
    /\ IF busy = "high"
       THEN /\ trace' = Append(trace, Done(CurStep, TRUE))
            /\ Advance
            /\ UNCHANGED <<busy, arg, img, source, mark, work>>
       ELSE UNCHANGED vars

\* main.rs:87-91: one poll of the loop; the call returns when the line is low
WaitBusyLow ==
    /\ pc \in {"wait_busy", "init_send", "draw_send"}
    /\ CurStep.op = "wait_busy_low"
    /\ IF busy = "low"
       THEN /\ trace' = Append(trace, Done(CurStep, TRUE))
            /\ Advance
            /\ UNCHANGED <<busy, arg, img, source, mark, work>>
       ELSE UNCHANGED vars

\* cmd.rs:67, 116: sleep inside a send
Sleep ==
    /\ InSend
    /\ CurStep.op = "sleep"
    /\ trace' = Append(trace, Done(CurStep, TRUE))
    /\ Advance
    /\ UNCHANGED <<busy, arg, img, source, mark, work>>

\* The panel drives the BUSY pin (main.rs:27, 35)
BusyLine ==
    /\ busy' = IF busy = "low" THEN "high" ELSE "low"
    /\ UNCHANGED <<pc, ip, trace, arg, img, source, ret, mark, work>>

\* A step of the program
Program ==
    \/ OpenDevices
    \/ EPaperInit
    \/ LoadImage
    \/ AssertDims
    \/ Reset
    \/ CallInit
    \/ SelectSource
    \/ SendCmd
    \/ SendData
    \/ WaitBusyHigh
    \/ WaitBusyLow
    \/ Sleep

Next == Program \/ BusyLine

Spec == Init /\ [][Next]_vars

\* The thread of main keeps running: a step it can take, it takes
FairSpec == Spec /\ WF_vars(Program)

----------------------------------------------------------------------------
(* draw.rs: the palette and Color::closest *)

\* f32 values are held as integers, in units of 1/Fixed (main.rs:95-99)
Fixed == 16

\* u8 or integer literal to f32
F32(n) == n * Fixed

\* main.rs:95-99
Rgb(r, g, b) == [r |-> r, g |-> g, b |-> b]

\* draw.rs:18-29
Color_all ==
    << "Clean", "Black", "White", "Green", "Blue", "Red", "Yellow", "Orange" >>

\* draw.rs:48-57
LOOKUP ==
    << << F32(0), F32(0), F32(0) >>,
       << F32(255), F32(255), F32(255) >>,
       << F32(0), F32(255), F32(0) >>,
       << F32(0), F32(0), F32(255) >>,
       << F32(255), F32(0), F32(0) >>,
       << F32(255), F32(255), F32(0) >>,
       << F32(255), F32(170), F32(0) >>,
       << F32(180), F32(180), F32(180) >> >>

\* Faulty variant of as_rgb: the table is read by the position in Color::all()
as_rgb_by_position(c) ==
    LOOKUP[CHOOSE i \in 1..Len(Color_all) : Color_all[i] = c]

\* draw.rs:47-59: LOOKUP[*self as usize]
as_rgb(c) == LOOKUP[Code(c) + 1]

\* draw.rs:35-39: the squared distance ed of the closure
Distance(pixel, c) ==
    LET ref == as_rgb(c)
        dr == pixel.r - ref[1]
        dg == pixel.g - ref[2]
        db == pixel.b - ref[3]
    IN  dr * dr + dg * dg + db * db

RECURSIVE MinBy_last(_, _, _)
\* Faulty variant of MinBy: of equal distances the later color is kept
MinBy_last(pixel, i, best) ==
    IF i > Len(Color_all) THEN best
    ELSE MinBy_last(pixel, i + 1,
                    IF Distance(pixel, best) >= Distance(pixel, Color_all[i])
                    THEN Color_all[i] ELSE best)

RECURSIVE MinBy(_, _, _)
\* draw.rs:42: Iterator::min_by with total_cmp from element i on; the element
\* kept so far gives way only to one that is strictly smaller
MinBy(pixel, i, best) ==
    IF i > Len(Color_all) THEN best
    ELSE MinBy(pixel, i + 1,
               IF Distance(pixel, best) > Distance(pixel, Color_all[i])
               THEN Color_all[i] ELSE best)

\* draw.rs:31-45
closest(pixel) == MinBy(pixel, 2, Color_all[1])

\* main.rs:111-116
Rgb_from_Color(c) == Rgb(as_rgb(c)[1], as_rgb(c)[2], as_rgb(c)[3])

----------------------------------------------------------------------------
(* Functions on their own: one call of a function on an input *)

\* Largest multiple of 45 among the channel values tried
MaxLevel == 6

\* Channel values of the samples: a grid, below 0 and above 255 too (diffused
\* error leaves the range), and the values of the reference colors
Levels == { 45 * k : k \in (-1)..MaxLevel } \cup {0, 170, 180, 255}

\* Samples handed to Color::closest
Samples == { Rgb(F32(r), F32(g), F32(b)) : r \in Levels, g \in Levels, b \in Levels }

\* The variables of main while a function is studied on its own
Parked ==
    /\ pc = "parked"
    /\ ip = 0
    /\ trace = << >>
    /\ busy = "low"
    /\ arg = "<none>"
    /\ img = [w |-> Width, h |-> Height]
    /\ source = NoSource
    /\ ret = [Init |-> "none", Draw |-> "none"]
    /\ mark = [Init |-> -1, Draw |-> -1]

mainVars == <<pc, ip, trace, busy, arg, img, source, ret, mark>>

\* draw.rs:69-76
Partial(color, x, y, w, h, rest) ==
    [kind |-> "Partial", color |-> color, x |-> x, y |-> y, w |-> w, h |-> h,
     rest |-> rest]

\* u16 `a + b` panics: only with overflow checks (debug build), on overflow
U16AddPanics(a, b, build) == a + b > 65535 /\ build = "debug"

\* u16 `a + b` where it does not panic: the sum, wrapped without overflow
\* checks (release build)
U16Add(a, b) == (a + b) % 65536

\* draw.rs:89-97: the conditions are evaluated from left to right, a sum only
\* when every condition before it holds
Partial_get_pixel(p, x, y, build) ==
    IF ~(x >= p.x /\ y >= p.y) THEN get_pixel(p.rest, x, y)
    ELSE IF U16AddPanics(p.x, p.w, build) THEN "panic"
    ELSE IF ~(x < U16Add(p.x, p.w)) THEN get_pixel(p.rest, x, y)
    ELSE IF U16AddPanics(p.y, p.h, build) THEN "panic"
    ELSE IF y < U16Add(p.y, p.h) THEN p.color
    ELSE get_pixel(p.rest, x, y)

\* How far from 0 and from 65535 the u16 values tried reach
EdgeSpan == 1

\* u16 values at both ends of the range
U16Values == (0..EdgeSpan) \cup ((65535 - EdgeSpan)..65535)

\* Calls not yet made
FnInputs ==
    { [fn |-> "closest", called |-> FALSE, pixel |-> p] : p \in Samples }
    \cup
    { [fn |-> "PanelSetting", called |-> FALSE,
       ud |-> f[1], shl |-> f[2], shd_n |-> f[3], rst_n |-> f[4]] :
        f \in [1..4 -> BOOLEAN] }
    \cup
    { [fn |-> "Partial", called |-> FALSE, build |-> b,
       partial |-> Partial("Red", q[1], q[2], q[3], q[4], SolidColor("Blue")),
       x |-> q[5], y |-> q[6]] :
        q \in [1..6 -> U16Values], b \in {"debug", "release"} }

FnInit ==
    /\ Parked
    /\ work \in FnInputs

\* Color::closest(pixel)
CallClosest ==
    /\ work.fn = "closest"
    /\ ~work.called
    /\ work' = [fn |-> "closest", called |-> TRUE, pixel |-> work.pixel,
                out |-> closest(work.pixel)]
    /\ UNCHANGED mainVars

\* PanelSetting { ud, shl, shd_n, rst_n }.send(to), no transport call failing
CallPanelSetting ==
    /\ work.fn = "PanelSetting"
    /\ ~work.called
    /\ work' = [work EXCEPT !.called = TRUE] @@
                [out |-> PanelSetting(work.ud, work.shl, work.shd_n, work.rst_n)]
    /\ UNCHANGED mainVars

\* Partial { .. }.get_pixel(x, y)
CallPartial ==
    /\ work.fn = "Partial"
    /\ ~work.called
    /\ work' = [work EXCEPT !.called = TRUE] @@
                [out |-> Partial_get_pixel(work.partial, work.x, work.y, work.build)]
    /\ UNCHANGED mainVars

FnNext ==
    \/ CallClosest
    \/ CallPanelSetting
    \/ CallPartial

FnSpec == FnInit /\ [][FnNext]_vars

----------------------------------------------------------------------------
(* main.rs:147-193: floyd_steinberg_dither, one pixel of the loop at a time.*)
(* The function is written for SCREEN_WIDTH x SCREEN_HEIGHT; its loop is    *)
(* run here on buffers of width x height, width and height small.           *)

\* Largest width and height of the buffers the loop is run on
MaxDitherWidth == 3
MaxDitherHeight == 2

\* Pixels of the image (u8 channels)
BmpPixels == { <<100, 100, 100>>, <<200, 50, 50>> }

\* main.rs:101-109
Rgb_from_Pixel(p) == Rgb(F32(p[1]), F32(p[2]), F32(p[3]))

\* main.rs:136-145
Rgb_sub(a, b) == Rgb(a.r - b.r, a.g - b.g, a.b - b.b)

\* main.rs:128-134
Rgb_add(a, b) == Rgb(a.r + b.r, a.g + b.g, a.b + b.b)

\* f32 `n / 16.0`, rounded to the nearest unit of 1/Fixed, ties to even
Div16(n) ==
    LET q == n \div 16
        r == n % 16
    IN  IF r < 8 THEN q
        ELSE IF r > 8 THEN q + 1
        ELSE IF q % 2 = 0 THEN q ELSE q + 1

\* main.rs:149-155
diffuse_error(error, weight) ==
    Rgb(Div16(error.r * weight), Div16(error.g * weight), Div16(error.b * weight))

\* main.rs:170: the closure idx
idx(x, y, width) == x + y * width

\* Faulty variant of DiffuseAdds: the right neighbour is not checked
DiffuseAdds_unchecked_right(x, y, width, height) ==
    << [index |-> idx(x + 1, y, width), weight |-> 7] >>
    \o (IF x + 1 < width /\ y + 1 < height
        THEN << [index |-> idx(x + 1, y + 1, width), weight |-> 1] >> ELSE << >>)
    \o (IF x # 0 /\ y + 1 < height
        THEN << [index |-> idx(x - 1, y + 1, width), weight |-> 3] >> ELSE << >>)
    \o (IF y + 1 < height
        THEN << [index |-> idx(x, y + 1, width), weight |-> 5] >> ELSE << >>)

\* Faulty variant of DiffuseAdds: the weights of right and below are exchanged
DiffuseAdds_weights_exchanged(x, y, width, height) ==
    (IF x + 1 < width
     THEN << [index |-> idx(x + 1, y, width), weight |-> 5] >> ELSE << >>)
    \o (IF x + 1 < width /\ y + 1 < height
        THEN << [index |-> idx(x + 1, y + 1, width), weight |-> 1] >> ELSE << >>)
    \o (IF x # 0 /\ y + 1 < height
        THEN << [index |-> idx(x - 1, y + 1, width), weight |-> 3] >> ELSE << >>)
    \o (IF y + 1 < height
        THEN << [index |-> idx(x, y + 1, width), weight |-> 7] >> ELSE << >>)

\* main.rs:178-189: the adds made for pixel (x, y), in order: the index
\* written and the weight
DiffuseAdds(x, y, width, height) ==
    (IF x + 1 < width
     THEN << [index |-> idx(x + 1, y, width), weight |-> 7] >> ELSE << >>)
    \o (IF x + 1 < width /\ y + 1 < height
        THEN << [index |-> idx(x + 1, y + 1, width), weight |-> 1] >> ELSE << >>)
    \o (IF x # 0 /\ y + 1 < height
        THEN << [index |-> idx(x - 1, y + 1, width), weight |-> 3] >> ELSE << >>)
    \o (IF y + 1 < height
        THEN << [index |-> idx(x, y + 1, width), weight |-> 5] >> ELSE << >>)

RECURSIVE ApplyAdds(_, _, _, _)
\* main.rs:179-188: input[index] += diffuse_error(error, weight), add k on
ApplyAdds(input, adds, error, k) ==
    IF k > Len(adds) THEN input
    ELSE ApplyAdds(
            [input EXCEPT ![adds[k].index + 1] =
                Rgb_add(@, diffuse_error(error, adds[k].weight))],
            adds, error, k + 1)

\* Faulty variant of NextPos: columns first, as in the copy loop
NextPos_columns(x, y, width, height) ==
    IF y + 1 < height THEN << x, y + 1 >> ELSE << x + 1, 0 >>

\* main.rs:171-172: the pixel after (x, y) in the two loops
NextPos(x, y, width, height) ==
    IF x + 1 < width THEN << x + 1, y >> ELSE << 0, y + 1 >>

\* Images handed to floyd_steinberg_dither, with the size of the buffers
DitherInputs ==
    UNION { { [fn |-> "dither", at |-> "call", width |-> w, height |-> h,
               image |-> im] : im \in [1..(w * h) -> BmpPixels] } :
            w \in 1..MaxDitherWidth, h \in 1..MaxDitherHeight }

DitherInit ==
    /\ Parked
    /\ work \in DitherInputs

\* main.rs:157-170: input is filled from the image, out with Clean
DitherBegin ==
    /\ work.fn = "dither"
    /\ work.at = "call"
    /\ work' = [fn |-> "dither", at |-> "loop",
                width |-> work.width, height |-> work.height,
                image |-> work.image,
                input |-> [i \in 1..(work.width * work.height) |->
                              Rgb_from_Pixel(work.image[i])],
                out |-> [i \in 1..(work.width * work.height) |-> "Clean"],
                x |-> 0, y |-> 0,
                order |-> << >>,
                last |-> [x |-> -1, y |-> -1, adds |-> << >>]]
    /\ UNCHANGED mainVars

\* main.rs:173-189: the body of the loop for pixel (x, y).  An index outside
\* the buffer panics.  order and last are history: the indices quantized so
\* far, and what this pixel did with the buffers as they were before it.
DitherPixel ==
    /\ work.fn = "dither"
    /\ work.at = "loop"
    /\ LET x == work.x
           y == work.y
           n == work.width * work.height
           oldpixel == work.input[idx(x, y, work.width) + 1]
           newpixel == closest(oldpixel)
           error == Rgb_sub(oldpixel, Rgb_from_Color(newpixel))
           adds == DiffuseAdds(x, y, work.width, work.height)
           panics == \E k \in 1..Len(adds) : adds[k].index >= n
           nxt == NextPos(x, y, work.width, work.height)
       IN  work' = [work EXCEPT
                !.at = IF panics THEN "panicked"
                       ELSE IF nxt[1] < work.width /\ nxt[2] < work.height
                            THEN "loop" ELSE "end",
                !.out = [@ EXCEPT ![x + y * work.width + 1] = newpixel],
                !.input = IF panics THEN @ ELSE ApplyAdds(@, adds, error, 1),
                !.x = nxt[1],
                !.y = nxt[2],
                !.order = Append(@, x + y * work.width),
                !.last = [x |-> x, y |-> y, adds |-> adds, error |-> error,
                          input |-> work.input, out |-> work.out]]
    /\ UNCHANGED mainVars

\* main.rs:192: PaperImage { data: out }
DitherReturn ==
    /\ work.fn = "dither"
    /\ work.at = "end"
    /\ work' = [work EXCEPT !.at = "returned"]
    /\ UNCHANGED mainVars

DitherNext ==
    \/ DitherBegin
    \/ DitherPixel
    \/ DitherReturn

DitherSpec == DitherInit /\ [][DitherNext]_vars

----------------------------------------------------------------------------
(* What each send has done so far *)

\* The hardware interactions of Init.send, in order
InitTrace ==
    IF mark.Init < 0 THEN << >>
    ELSE SubSeq(trace, mark.Init + 1,
                IF mark.Draw < 0 THEN Len(trace) ELSE mark.Draw)

\* The hardware interactions of Draw.send, in order
DrawTrace ==
    IF mark.Draw < 0 THEN << >>
    ELSE SubSeq(trace, mark.Draw + 1, Len(trace))

\* Number of bytes of a full frame, two pixels to the byte
FrameBytes == (Width \div 2) * Height

----------------------------------------------------------------------------
(* Claims *)

\* C1: a Draw send in which no transport call fails performs, in this order
\* and with nothing in between: 0x61 and its 4 bytes, 0x10 and the frame
\* payload (one byte for each two pixels), 0x04 and the wait for busy-high,
\* 0x12 and the wait for busy-high, 0x02 and the wait for busy-low, the 200ms
\* sleep.  It holds of every prefix of the send, so an opcode is sent only
\* when the wait before it has returned; a Draw that returned Ok did all of it.
C1_DrawOrder ==
    LET t == DrawTrace
        n == FrameBytes
        Is(e, o, a) == e.op = o /\ e.arg = a
        Expected(i, e) ==
            CASE i = 1 -> Is(e, "send_cmd", <<97>>)
              [] i = 2 -> e.op = "send_data" /\ Len(e.arg) = 4
              [] i = 3 -> Is(e, "send_cmd", <<16>>)
              [] i \in 4..(n + 3) -> e.op = "send_data" /\ Len(e.arg) = 1
              [] i = n + 4 -> Is(e, "send_cmd", <<4>>)
              [] i = n + 5 -> Is(e, "wait_busy_high", << >>)
              [] i = n + 6 -> Is(e, "send_cmd", <<18>>)
              [] i = n + 7 -> Is(e, "wait_busy_high", << >>)
              [] i = n + 8 -> Is(e, "send_cmd", <<2>>)
              [] i = n + 9 -> Is(e, "wait_busy_low", << >>)
              [] i = n + 10 -> Is(e, "sleep", <<200>>)
              [] OTHER -> FALSE
    IN  /\ (\A i \in 1..Len(t) : t[i].ok)
            => \A i \in 1..Len(t) : Expected(i, t[i])
        /\ ret.Draw = "Ok"
            => Len(t) = n + 10 /\ \A i \in 1..Len(t) : t[i].ok

\* C1 witness: a Draw send has returned Ok
C1_Witness == ret.Draw = "Ok" /\ pc = "done"

\* C2: an Init send in which no transport call fails sends the opcodes 0x00,
\* 0x01, 0x03, 0x06, 0x30, 0x41, 0x50, 0x60, 0x61, 0xE3, 0x50 in this order,
\* each followed at once by one send_data with its payload, the 100ms sleep
\* between the payload of 0xE3 and the second 0x50, both 0x50 payloads with
\* the border bits (7..5) of black, and no busy-wait; the payloads have 2, 4,
\* 1, 3, 1, 1, 1, 1, 4, 1, 1 bytes.  Below, -1 is a send_data call and -2 the
\* 100ms sleep.
C2_InitOrder ==
    LET t == InitTrace
        Shape(e) ==
            IF e.op = "send_cmd" THEN e.arg[1]
            ELSE IF e.op = "send_data" THEN -1
            ELSE IF e.op = "sleep" /\ e.arg = <<100>> THEN -2
            ELSE -3
        Expected == << 0, -1, 1, -1, 3, -1, 6, -1, 48, -1, 65, -1, 80, -1,
                       96, -1, 97, -1, 227, -1, -2, 80, -1 >>
        \* number of payload bytes of each send_data, 0 elsewhere
        Bytes == << 0, 2, 0, 4, 0, 1, 0, 3, 0, 1, 0, 1, 0, 1,
                    0, 1, 0, 4, 0, 1, 0, 0, 1 >>
    IN  /\ (\A i \in 1..Len(t) : t[i].ok)
            => /\ Len(t) <= Len(Expected)
               /\ \A i \in 1..Len(t) : Shape(t[i]) = Expected[i]
               /\ \A i \in 1..Len(t) :
                    t[i].op = "send_data" => Len(t[i].arg) = Bytes[i]
               /\ \A i \in {14, 23} :
                    i <= Len(t) => Len(t[i].arg) = 1 /\ t[i].arg[1] \div 32 = 0
        /\ ret.Init = "Ok"
            => Len(t) = Len(Expected) /\ \A i \in 1..Len(t) : t[i].ok

\* C2 witness: an Init send has returned Ok
C2_Witness == ret.Init = "Ok" /\ pc = "select_source"

\* C3: a send_cmd or send_data call that fails during Init or Draw is the
\* last hardware interaction of the run: nothing is sent, waited for or slept
\* after it, the call is not repeated, and the send in progress has returned
\* the error, which ends main.
C3_AbortOnError ==
    \A i \in 1..Len(trace) :
        ~trace[i].ok =>
            /\ i = Len(trace)
            /\ trace[i].op \in {"send_cmd", "send_data"}
            /\ pc = "exit_err"
            /\ IF mark.Draw < 0
               THEN ret = [Init |-> "Err", Draw |-> "none"]
               ELSE ret = [Init |-> "Ok", Draw |-> "Err"]

\* C3 witness: a send_data of the pixel payload has failed after at least one
\* byte of it went out
C3_Witness ==
    /\ Len(DrawTrace) > 4
    /\ Len(DrawTrace) <= 3 + FrameBytes
    /\ ~DrawTrace[Len(DrawTrace)].ok

\* C4: whenever the opcode 0x12 is sent, the opcode 0x10 was sent before it
\* in the same Draw and was followed at once by FrameBytes send_data calls of
\* one byte each, every one of them successful, all before the 0x12.
C4_NoPartialFrame ==
    \A i \in 1..Len(trace) :
        (trace[i].op = "send_cmd" /\ trace[i].arg = <<18>>) =>
            /\ mark.Draw >= 0
            /\ \E j \in (mark.Draw + 1)..(i - 1) :
                /\ trace[j].op = "send_cmd" /\ trace[j].arg = <<16>>
                /\ trace[j].ok
                /\ j + FrameBytes < i
                /\ \A k \in (j + 1)..(j + FrameBytes) :
                    /\ trace[k].op = "send_data"
                    /\ Len(trace[k].arg) = 1
                    /\ trace[k].ok

\* C4 witness: the opcode 0x12 has been sent
C4_Witness ==
    \E i \in 1..Len(trace) : trace[i].op = "send_cmd" /\ trace[i].arg = <<18>>

\* C5 as stated: the Panel-setting command of Init (flags ud, shl, shd_n,
\* rst_n all true) sends the command byte 0x00 and then the two data bytes
\* 0xF8, 0x08.
C5_AsStated ==
    LET t == InitTrace
    IN  /\ Len(t) >= 1 => t[1].op = "send_cmd" /\ t[1].arg = <<0>>
        /\ Len(t) >= 2 => t[2].op = "send_data" /\ t[2].arg = <<248, 8>>

\* C5, amended: the Panel-setting command of Init (flags ud, shl, shd_n, rst_n
\* all true) sends the command byte 0x00 and then the two data bytes
\* 0xEF, 0x08 (0b11100000 with bits 3..0 set).
C5_PanelSettingBytes ==
    LET t == InitTrace
    IN  /\ Len(t) >= 1 => t[1].op = "send_cmd" /\ t[1].arg = <<0>>
        /\ Len(t) >= 2 => t[2].op = "send_data" /\ t[2].arg = <<239, 8>>

\* C5 witness: the two data bytes of the Panel setting have been sent
C5_Witness == Len(InitTrace) >= 2 /\ InitTrace[2].ok

\* C6: the payload byte of Draw at position y * (Width / 2) + k is
\* (code of pixel (2k, y)) * 16 + (code of pixel (2k + 1, y)): the even pixel
\* in the high nibble, the odd pixel in the low nibble, rows one after the
\* other; the byte is below 256 and each nibble holds one pixel's code whole.
C6_Packing ==
    LET t == DrawTrace
        Pixel(x, y) ==
            IF source.kind = "SolidColor" THEN source.color
            ELSE source.data[y * Width + x + 1]
    IN  \A y \in 0..(Height - 1) : \A k \in 0..((Width \div 2) - 1) :
            LET pos == 3 + y * (Width \div 2) + k + 1
                hi == Code(Pixel(2 * k, y))
                lo == Code(Pixel(2 * k + 1, y))
            IN  pos <= Len(t) =>
                    /\ t[pos].op = "send_data"
                    /\ t[pos].arg = << hi * 16 + lo >>
                    /\ t[pos].arg[1] < 256
                    /\ t[pos].arg[1] \div 16 = hi
                    /\ t[pos].arg[1] % 16 = lo

\* C6 witness: a whole frame with Red (0x4) left of Green (0x2) in some
\* pixel pair has been sent, and the byte of that pair is 0x42
C6_Witness ==
    /\ ret.Draw = "Ok"
    /\ source.kind = "PaperImage"
    /\ \E y \in 0..(Height - 1) : \E k \in 0..((Width \div 2) - 1) :
        /\ source.data[y * Width + 2 * k + 1] = "Red"
        /\ source.data[y * Width + 2 * k + 2] = "Green"
        /\ DrawTrace[3 + y * (Width \div 2) + k + 1].arg = <<66>>

\* C7: when Init and then Draw of SolidColor(Clean) have both returned Ok,
\* the opcode 0x10 was sent exactly once in the whole run, and it is followed
\* by exactly FrameBytes payload bytes, each of them 0x77.
C7_CleanFrame ==
    (ret.Draw = "Ok" /\ source.kind = "SolidColor" /\ source.color = "Clean") =>
        /\ ret.Init = "Ok"
        /\ Cardinality({ i \in 1..Len(trace) :
                trace[i].op = "send_cmd" /\ trace[i].arg = <<16>> }) = 1
        /\ \E j \in 1..Len(trace) :
            /\ trace[j].op = "send_cmd" /\ trace[j].arg = <<16>>
            /\ \A i \in (j + 1)..(j + FrameBytes) :
                trace[i].op = "send_data" /\ trace[i].arg = <<119>>
            /\ trace[j + FrameBytes + 1].op # "send_data"

\* C7 witness: Init and Draw of SolidColor(Clean) have returned Ok
C7_Witness ==
    /\ pc = "done" /\ ret.Draw = "Ok"
    /\ source.kind = "SolidColor" /\ source.color = "Clean"

\* C8 as stated: until the check of the image's dimensions has passed, and
\* also when it has failed, there has been no hardware interaction at all.
C8_AsStated ==
    pc \in {"open", "epaper_init", "load_image", "assert_dims", "panicked"}
        => trace = << >>

\* C9 as stated: when the Init sequence begins, the reset sequence (reset
\* line high 600ms, low 2ms, high 200ms) has been performed exactly once.
C9_AsStated ==
    mark.Init >= 0 =>
        Cardinality({ i \in 1..(mark.Init - 5) :
            /\ trace[i].op = "reset_set_high"
            /\ trace[i + 1].op = "sleep" /\ trace[i + 1].arg = <<600>>
            /\ trace[i + 2].op = "reset_set_low"
            /\ trace[i + 3].op = "sleep" /\ trace[i + 3].arg = <<2>>
            /\ trace[i + 4].op = "reset_set_high"
            /\ trace[i + 5].op = "sleep" /\ trace[i + 5].arg = <<200>> }) = 1

\* Draw has sent the opcode b, successfully, and nothing since
AfterOp(b) ==
    /\ pc = "draw_send"
    /\ Len(DrawTrace) > 0
    /\ DrawTrace[Len(DrawTrace)].op = "send_cmd"
    /\ DrawTrace[Len(DrawTrace)].arg = <<b>>
    /\ DrawTrace[Len(DrawTrace)].ok

\* Draw is in a busy-wait and the line is not at the level it waits for
Stuck ==
    \/ AfterOp(4) /\ busy = "low"
    \/ AfterOp(18) /\ busy = "low"
    \/ AfterOp(2) /\ busy = "high"

\* C10: busy-waits have no timeout.  While Draw is after a successful 0x04 or
\* 0x12 and the busy line is low, or after a successful 0x02 and the line is
\* high, the send does nothing and stays where it is, however long: no later
\* opcode is sent.  The wait ends once the line keeps the awaited level: with
\* the line high in the end the waits after 0x04 and 0x12 are left, with the
\* line low in the end the wait after 0x02 is left and Draw returns Ok.  A
\* Draw that returned Ok had no transport call fail.
C10_NoTimeout ==
    /\ [][Stuck => (pc' = pc /\ ip' = ip /\ trace' = trace /\ ret' = ret)]_vars
    /\ [](ret.Draw = "Ok" => \A i \in 1..Len(DrawTrace) : DrawTrace[i].ok)
    /\ (<>[](busy = "high")) =>
          /\ [](AfterOp(4) => <>(~AfterOp(4)))
          /\ [](AfterOp(18) => <>(~AfterOp(18)))
    /\ (<>[](busy = "low")) => [](AfterOp(2) => <>(ret.Draw = "Ok"))

\* C10 witness: Draw has sent 0x02 and polls a busy line that is high
C10_Witness ==
    /\ pc = "draw_send"
    /\ Len(DrawTrace) > 0
    /\ DrawTrace[Len(DrawTrace)].op = "send_cmd"
    /\ DrawTrace[Len(DrawTrace)].arg = <<2>>
    /\ DrawTrace[Len(DrawTrace)].ok
    /\ busy = "high"

\* C11: Color::closest returns a color whose squared distance to the sample
\* is the least over the 8 colors, and of several colors at that distance the
\* one that comes first in the order of Color::all() (Clean, Black, White,
\* Green, Blue, Red, Yellow, Orange): for (90, 90, 90), as far from Black as
\* from Clean, it returns Clean.
C11_Closest ==
    (work.fn = "closest" /\ work.called) =>
        LET Order == << "Clean", "Black", "White", "Green",
                        "Blue", "Red", "Yellow", "Orange" >>
            Ref == << <<180, 180, 180>>, <<0, 0, 0>>, <<255, 255, 255>>,
                      <<0, 255, 0>>, <<0, 0, 255>>, <<255, 0, 0>>,
                      <<255, 255, 0>>, <<255, 170, 0>> >>
            D(i) == (work.pixel.r - Fixed * Ref[i][1]) ^ 2
                    + (work.pixel.g - Fixed * Ref[i][2]) ^ 2
                    + (work.pixel.b - Fixed * Ref[i][3]) ^ 2
        IN  \E i \in 1..8 :
                /\ work.out = Order[i]
                /\ \A j \in 1..8 : D(i) <= D(j)
                /\ \A j \in 1..(i - 1) : D(j) > D(i)

\* C11 witness: closest has been called on (90, 90, 90), as far from Black as
\* from Clean, and has returned Clean
C11_Witness ==
    /\ work.fn = "closest" /\ work.called
    /\ work.pixel = [r |-> 90 * Fixed, g |-> 90 * Fixed, b |-> 90 * Fixed]
    /\ work.out = "Clean"

\* C12: for each of the 8 colors, Color::closest of the color's reference
\* value returns that color.
C12_NearestOfReference ==
    (work.fn = "closest" /\ work.called) =>
        LET Is(r, g, b) ==
                work.pixel = [r |-> r * Fixed, g |-> g * Fixed, b |-> b * Fixed]
        IN  /\ Is(0, 0, 0) => work.out = "Black"
            /\ Is(255, 255, 255) => work.out = "White"
            /\ Is(0, 255, 0) => work.out = "Green"
            /\ Is(0, 0, 255) => work.out = "Blue"
            /\ Is(255, 0, 0) => work.out = "Red"
            /\ Is(255, 255, 0) => work.out = "Yellow"
            /\ Is(255, 170, 0) => work.out = "Orange"
            /\ Is(180, 180, 180) => work.out = "Clean"

\* C12 witness: closest has been called on the reference value of Clean
C12_Witness ==
    /\ work.fn = "closest" /\ work.called
    /\ work.pixel = [r |-> 180 * Fixed, g |-> 180 * Fixed, b |-> 180 * Fixed]
    /\ work.out = "Clean"

\* C13: dithering stays inside its buffers.  For the pixel (x, y) just
\* quantized, in buffers of any size from 1 x 1 on: the add of weight 7 was
\* made only if (x+1, y) is inside the buffer, and then at that cell; likewise
\* weight 1 and (x+1, y+1), weight 3 and (x-1, y+1), weight 5 and (x, y+1).
\* No cell other than these neighbours inside the buffer has changed (nothing
\* lands on another row or on the edge instead), every index used is in
\* 0..width*height-1, and nothing has panicked.
C13_DitherInBounds ==
    (work.fn = "dither" /\ work.at # "call" /\ work.last.x >= 0) =>
        LET w == work.width
            h == work.height
            x == work.last.x
            y == work.last.y
            Target(weight) ==
                CASE weight = 7 -> << x + 1, y >>
                  [] weight = 1 -> << x + 1, y + 1 >>
                  [] weight = 3 -> << x - 1, y + 1 >>
                  [] weight = 5 -> << x, y + 1 >>
            Inside(t) == t[1] >= 0 /\ t[1] < w /\ t[2] >= 0 /\ t[2] < h
            Cells == { t[1] + t[2] * w :
                        t \in { u \in { Target(7), Target(1), Target(3), Target(5) } :
                                    Inside(u) } }
        IN  /\ work.at # "panicked"
            /\ x < w /\ y < h
            /\ Len(work.input) = w * h /\ Len(work.out) = w * h
            /\ \A k \in 1..Len(work.last.adds) :
                LET a == work.last.adds[k]
                IN  /\ a.weight \in {7, 1, 3, 5}
                    /\ Inside(Target(a.weight))
                    /\ a.index = Target(a.weight)[1] + Target(a.weight)[2] * w
                    /\ a.index \in 0..(w * h - 1)
            /\ \A i \in 0..(w * h - 1) :
                work.input[i + 1] # work.last.input[i + 1] => i \in Cells

\* C13 witness: the pixel at the right edge of a row that is not the last has
\* been quantized, its error being other than zero
C13_Witness ==
    /\ work.fn = "dither" /\ work.at = "loop"
    /\ work.width >= 2 /\ work.height >= 2
    /\ work.last.x = work.width - 1 /\ work.last.y = 0
    /\ work.last.error.r # 0

\* C14: the weights of the diffusion.  The adds made for the pixel just
\* quantized are those of its neighbours inside the buffer and no others:
\* 7/16 of the error to (x+1, y), 1/16 to (x+1, y+1), 3/16 to (x-1, y+1),
\* 5/16 to (x, y+1), each cell growing by its share of the error; for a pixel
\* with all four neighbours inside the weights sum to 16, for a pixel at the
\* boundary the shares of the neighbours outside are dropped and every other
\* cell is left as it was.
C14_DiffusionWeights ==
    (work.fn = "dither" /\ work.at \in {"loop", "end", "returned"}
        /\ work.last.x >= 0) =>
        LET w == work.width
            h == work.height
            x == work.last.x
            y == work.last.y
            e == work.last.error
            Nb == { << x + 1, y, 7 >>, << x + 1, y + 1, 1 >>,
                    << x - 1, y + 1, 3 >>, << x, y + 1, 5 >> }
            In == { t \in Nb : t[1] >= 0 /\ t[1] < w /\ t[2] >= 0 /\ t[2] < h }
            Made == { << work.last.adds[k].index, work.last.adds[k].weight >> :
                        k \in 1..Len(work.last.adds) }
            Share(v, weight) == Div16(v * weight)
        IN  /\ Made = { << t[1] + t[2] * w, t[3] >> : t \in In }
            /\ Len(work.last.adds) = Cardinality(In)
            /\ \A t \in In :
                LET i == t[1] + t[2] * w + 1
                IN  /\ work.input[i].r = work.last.input[i].r + Share(e.r, t[3])
                    /\ work.input[i].g = work.last.input[i].g + Share(e.g, t[3])
                    /\ work.input[i].b = work.last.input[i].b + Share(e.b, t[3])
            /\ \A i \in 1..(w * h) :
                (\A t \in In : i # t[1] + t[2] * w + 1)
                    => work.input[i] = work.last.input[i]
            /\ In = Nb =>
                /\ Len(work.last.adds) = 4
                /\ work.last.adds[1].weight + work.last.adds[2].weight
                   + work.last.adds[3].weight + work.last.adds[4].weight = 16

\* C14 witness: a pixel with all four neighbours inside the buffer has been
\* quantized with an error other than zero
C14_Witness ==
    /\ work.fn = "dither" /\ work.at = "loop"
    /\ work.last.x >= 1 /\ work.last.x + 1 < work.width
    /\ work.last.y + 1 < work.height
    /\ work.last.error.r # 0
    /\ Len(work.last.adds) = 4

\* C17: dithering goes through the pixels row by row, left to right: the
\* indices quantized so far are 0, 1, 2, ... in this order, each once, and all
\* of them when the function returns.  The pixel just quantized wrote its own
\* cell of out, which had not been written before, and no other; its error
\* went only to cells that come later in this order, so the cells quantized
\* so far, in input and in out, are as they were.
C17_RasterOrder ==
    (work.fn = "dither" /\ work.at \in {"loop", "end", "returned"}) =>
        LET w == work.width
            h == work.height
            n == Len(work.order)
        IN  /\ \A k \in 1..n : work.order[k] = k - 1
            /\ work.at \in {"end", "returned"} => n = w * h
            /\ work.at = "loop" => work.x + work.y * w = n /\ work.x < w
            /\ work.last.x >= 0 =>
                LET cur == work.last.x + work.last.y * w
                IN  /\ cur = n - 1
                    /\ \A k \in 1..Len(work.last.adds) :
                        work.last.adds[k].index > cur
                    /\ \A i \in 0..cur :
                        work.input[i + 1] = work.last.input[i + 1]
                    /\ \A i \in 0..(w * h - 1) :
                        i # cur => work.out[i + 1] = work.last.out[i + 1]
                    /\ \A i \in cur..(w * h - 1) :
                        work.last.out[i + 1] = "Clean"

\* C17 witness: a buffer of at least two rows and two columns has been
\* dithered to the end
C17_Witness ==
    /\ work.fn = "dither" /\ work.at = "returned"
    /\ work.width >= 2 /\ work.height >= 2
    /\ Len(work.order) = work.width * work.height


\* The level of the busy line at which the panel is at work: high, the
\* "busy/working" level; low is the idle level
PanelWorking == busy = "high"

\* This step is a send_cmd call with the opcode b
SendsOpcode(b) ==
    /\ Len(trace') = Len(trace) + 1
    /\ trace'[Len(trace')].op = "send_cmd"
    /\ trace'[Len(trace')].arg = <<b>>

C16_InitOnceBeforeDraw ==
    LET Cmds(b) == { i \in 1..Len(trace) :
                        trace[i].op = "send_cmd" /\ trace[i].arg = <<b>> }
        Ops(a, b) == [ i \in 1..(b - a + 1) |-> trace[a + i - 1].op ]
    IN  /\ Cardinality(Cmds(0)) <= 1
        /\ mark.Init >= 0
            => /\ mark.Init >= 7
               /\ trace[mark.Init].op = "wait_busy_high"
               /\ Ops(mark.Init - 6, mark.Init - 1)
                    = << "reset_set_high", "sleep", "reset_set_low", "sleep",
                         "reset_set_high", "sleep" >>
               /\ \A i \in Cmds(0) : i = mark.Init + 1
        /\ mark.Draw >= 0
            => /\ ret.Init = "Ok"
               /\ mark.Draw = mark.Init + 23
               /\ \A i \in (mark.Init + 1)..mark.Draw : trace[i].ok
               /\ trace[mark.Draw - 1].op = "send_cmd"
               /\ trace[mark.Draw - 1].arg = <<80>>
               /\ trace[mark.Draw].op = "send_data"
               /\ trace[mark.Draw].arg = <<23>>
        /\ \A i \in Cmds(16) : mark.Draw >= 0 /\ i > mark.Draw
        /\ pc = "done" => ret.Init = "Ok" /\ Cardinality(Cmds(0)) = 1
        /\ ret.Init = "Err"
            => /\ mark.Draw < 0
               /\ ret.Draw = "none"
               /\ Cmds(16) = {}
               /\ pc = "exit_err"
               /\ Len(trace) <= mark.Init + 23
               /\ ~trace[Len(trace)].ok

\* C16 witness: 0x10 has been sent, after an Init that returned Ok
C16_Witness ==
    /\ ret.Init = "Ok"
    /\ \E i \in 1..Len(trace) :
            trace[i].op = "send_cmd" /\ trace[i].arg = <<16>> /\ trace[i].ok

\* C18: for each of the 16 combinations of the flags, PanelSetting.send with
\* no call failing sends the opcode 0x00 and then one send_data of exactly two
\* bytes.  The first byte has bits 7..5 set, bit 4 clear, and bits 3, 2, 1, 0
\* equal to ud, shl, shd_n, rst_n; the second byte is 0x08.
C18_PanelSettingFlags ==
    (work.fn = "PanelSetting" /\ work.called) =>
        LET b == work.out[2].arg[1]
            Bit(f) == IF f THEN 1 ELSE 0
        IN  /\ Len(work.out) = 2
            /\ work.out[1] = [op |-> "send_cmd", arg |-> <<0>>]
            /\ work.out[2].op = "send_data"
            /\ Len(work.out[2].arg) = 2
            /\ work.out[2].arg[2] = 8
            /\ b \div 32 = 7
            /\ (b \div 16) % 2 = 0
            /\ (b \div 8) % 2 = Bit(work.ud)
            /\ (b \div 4) % 2 = Bit(work.shl)
            /\ (b \div 2) % 2 = Bit(work.shd_n)
            /\ b % 2 = Bit(work.rst_n)

\* C18 witness: PanelSetting has been sent with ud set and the other three
\* flags clear
C18_Witness ==
    /\ work.fn = "PanelSetting" /\ work.called
    /\ work.ud /\ ~work.shl /\ ~work.shd_n /\ ~work.rst_n
    /\ work.out[2].arg = <<232, 8>>

\* C19: every 0x61 sent is followed at once by one send_data of the four bytes
\* 0x02, 0x58, 0x01, 0xC0, which are SCREEN_WIDTH and SCREEN_HEIGHT, each as
\* 16 bits with the high byte first.  The frame payload of a Draw that
\* returned Ok has one byte for each two pixels of a row, for each row of the
\* panel the pixel loop runs over.
C19_Resolution ==
    LET BE16(n) == << n \div 256, n % 256 >>
        Payload == { i \in 1..Len(DrawTrace) :
                        DrawTrace[i].op = "send_data"
                        /\ Len(DrawTrace[i].arg) = 1 }
    IN  /\ \A i \in 1..Len(trace) :
                (trace[i].op = "send_cmd" /\ trace[i].arg = <<97>>
                    /\ trace[i].ok /\ i < Len(trace))
                => /\ trace[i + 1].op = "send_data"
                   /\ trace[i + 1].arg = <<2, 88, 1, 192>>
                   /\ trace[i + 1].arg = BE16(SCREEN_WIDTH) \o BE16(SCREEN_HEIGHT)
        /\ ret.Draw = "Ok" => Cardinality(Payload) = (Width \div 2) * Height

\* C19 witness: a Draw that returned Ok, its 0x61 and the four bytes sent
C19_Witness ==
    /\ ret.Draw = "Ok"
    /\ DrawTrace[1].arg = <<97>>
    /\ Len(DrawTrace[2].arg) = 4

\* C20 as stated: Partial::get_pixel returns the color of the Partial when
\* px <= x < px + w and py <= y < py + h, the sums not reduced to 16 bits, and
\* the pixel of the inner source otherwise; it never aborts.
C20_AsStated ==
    (work.fn = "Partial" /\ work.called) =>
        LET p == work.partial
        IN  work.out =
                IF /\ p.x <= work.x /\ work.x < p.x + p.w
                   /\ p.y <= work.y /\ work.y < p.y + p.h
                THEN p.color
                ELSE get_pixel(p.rest, work.x, work.y)

====
